---- MODULE Spec2Model ----
(***************************************************************************)
(* Model of the feature-extraction and labeling engine of zeroquant        *)
(* (scripts/ml/feature_engineering.py): FeatureConfig, FeatureExtractor    *)
(* and the OhlcvData container it reads (scripts/ml/data_fetcher.py).      *)
(*                                                                         *)
(* Numbers.  Prices and volumes are integers.  A float64 quantity that is  *)
(* a quotient of such integers is kept as an exact fraction <<n, d>> in    *)
(* lowest terms with d > 0.  The exponential averages and the standard     *)
(* deviation, whose exact values leave the 32-bit range or the rationals,  *)
(* are kept in fixed point (FxScale units per 1, SqrtScale for the root),  *)
(* rounded down at every step where float64 rounds to nearest.  A natural  *)
(* logarithm is kept as its argument.                                      *)
(***************************************************************************)
EXTENDS Integers, Sequences, FiniteSets, TLC

VARIABLES config, data, pcs, calls, results, taken

vars == <<config, data, pcs, calls, results, taken>>

-----------------------------------------------------------------------------
(* Bounds of the model.                                                    *)

\* Longest candle series drawn.
MaxLen == 56
\* Largest future_periods passed to extract_with_labels.
MaxFuture == 3

-----------------------------------------------------------------------------
(* Arithmetic.                                                             *)

\* Fixed-point units per 1 for the exponential averages; 0.0001 is one unit.
FxScale == 10000
\* Fixed-point units per 1 for the square root of the standard deviation.
SqrtScale == 10

Abs(x) == IF x < 0 THEN -x ELSE x

RECURSIVE Gcd(_, _)
Gcd(a, b) == IF b = 0 THEN a ELSE Gcd(b, a % b)

\* The fraction n/d in lowest terms with a positive denominator.  A float64
\* division by zero gives no fraction: n/0 is <<1, 0>> (inf), <<-1, 0>> (-inf) or
\* <<0, 0>> (nan).
Rat(n, d) ==
    IF d = 0 THEN <<(IF n > 0 THEN 1 ELSE IF n < 0 THEN -1 ELSE 0), 0>>
    ELSE LET g == Gcd(Abs(n), Abs(d))
             s == IF d < 0 THEN -1 ELSE 1
         IN  <<(s * n) \div g, (s * d) \div g>>

\* neither nan nor +-inf
RFinite(a) == a[2] # 0

RZero == <<0, 1>>
ROne == <<1, 1>>
RInt(k) == <<k, 1>>
RAdd(a, b) == Rat(a[1] * b[2] + b[1] * a[2], a[2] * b[2])
RSub(a, b) == Rat(a[1] * b[2] - b[1] * a[2], a[2] * b[2])
RNeg(a) == <<-a[1], a[2]>>
RLt(a, b) == a[1] * b[2] < b[1] * a[2]
RMul(a, b) == Rat(a[1] * b[1], a[2] * b[2])
\* a / b
RDiv(a, b) == Rat(a[1] * b[2], a[2] * b[1])
RMax(a, b) == IF RLt(a, b) THEN b ELSE a
RMin(a, b) == IF RLt(b, a) THEN b ELSE a

SeqMax(s, default) ==
    IF Len(s) = 0 THEN default
    ELSE CHOOSE m \in {s[i] : i \in 1..Len(s)} : \A i \in 1..Len(s) : s[i] <= m

Max2(a, b) == IF a >= b THEN a ELSE b

\* s[-k] of a Python sequence, k >= 1
Back(s, k) == s[Len(s) - k + 1]

RECURSIVE SumTo(_, _, _)
\* s[lo] + ... + s[hi]
SumTo(s, lo, hi) ==
    IF lo > hi THEN 0
    ELSE IF lo = hi THEN s[lo]
    ELSE SumTo(s, lo, (lo + hi) \div 2) + SumTo(s, ((lo + hi) \div 2) + 1, hi)

RECURSIVE ISqrtIn(_, _, _)
ISqrtIn(n, lo, hi) ==
    IF lo >= hi THEN lo
    ELSE LET mid == (lo + hi + 1) \div 2
         IN  IF mid * mid <= n THEN ISqrtIn(n, mid, hi) ELSE ISqrtIn(n, lo, mid - 1)

\* floor(sqrt(n)) for 0 <= n < 46340^2
ISqrt(n) == ISqrtIn(n, 0, 46339)

-----------------------------------------------------------------------------
(* FeatureConfig.                                                          *)

\* The dataclass defaults.
DefaultConfig ==
    [sma_periods |-> <<5, 10, 20, 50>>,
     ema_periods |-> <<12, 26>>,
     rsi_period |-> 14,
     macd_params |-> <<12, 26, 9>>,
     bb_period |-> 20,
     bb_std_dev |-> 2,
     atr_period |-> 14,
     return_periods |-> <<1, 5, 10>>]

MinKlinesFloor == 50

\* variant without the extra candle the RSI needs for its first difference
min_klines_required_NoRsiLookback(cfg) ==
    SeqMax(<<SeqMax(cfg.sma_periods, 0),
             SeqMax(cfg.ema_periods, 0),
             cfg.rsi_period,
             cfg.macd_params[2] + cfg.macd_params[3],
             cfg.bb_period,
             cfg.atr_period,
             SeqMax(cfg.return_periods, 0) + 1,
             MinKlinesFloor>>, 0)

min_klines_required(cfg) ==
    SeqMax(<<SeqMax(cfg.sma_periods, 0),
             SeqMax(cfg.ema_periods, 0),
             cfg.rsi_period + 1,
             cfg.macd_params[2] + cfg.macd_params[3],
             cfg.bb_period,
             cfg.atr_period,
             SeqMax(cfg.return_periods, 0) + 1,
             MinKlinesFloor>>, 0)

\* variant counting the return periods once, leaving out the log returns
feature_count_NoLogReturns(cfg) ==
    Len(cfg.sma_periods)
    + Len(cfg.ema_periods)
    + 1
    + 2
    + 2
    + 1
    + Len(cfg.return_periods)
    + 4

feature_count(cfg) ==
    Len(cfg.sma_periods)
    + Len(cfg.ema_periods)
    + 1
    + 2
    + 2
    + 1
    + Len(cfg.return_periods)
    + Len(cfg.return_periods)
    + 4

\* f"{pre}{p}{suf}"
Fmt(pre, p, suf) == pre \o ToString(p) \o suf

\* variant naming the log returns before the returns
feature_names_LogReturnsFirst(cfg) ==
    [i \in 1..Len(cfg.sma_periods) |-> Fmt("sma_", cfg.sma_periods[i], "_ratio")]
    \o [i \in 1..Len(cfg.ema_periods) |-> Fmt("ema_", cfg.ema_periods[i], "_ratio")]
    \o <<"rsi", "macd_histogram", "macd_signal_ratio",
         "bb_percent_b", "bb_bandwidth", "atr_ratio">>
    \o [i \in 1..Len(cfg.return_periods) |-> Fmt("log_return_", cfg.return_periods[i], "")]
    \o [i \in 1..Len(cfg.return_periods) |-> Fmt("return_", cfg.return_periods[i], "")]
    \o <<"body_ratio", "upper_shadow_ratio", "lower_shadow_ratio", "volume_change">>

feature_names(cfg) ==
    [i \in 1..Len(cfg.sma_periods) |-> Fmt("sma_", cfg.sma_periods[i], "_ratio")]
    \o [i \in 1..Len(cfg.ema_periods) |-> Fmt("ema_", cfg.ema_periods[i], "_ratio")]
    \o <<"rsi">>
    \o <<"macd_histogram", "macd_signal_ratio">>
    \o <<"bb_percent_b", "bb_bandwidth">>
    \o <<"atr_ratio">>
    \o [i \in 1..Len(cfg.return_periods) |-> Fmt("return_", cfg.return_periods[i], "")]
    \o [i \in 1..Len(cfg.return_periods) |-> Fmt("log_return_", cfg.return_periods[i], "")]
    \o <<"body_ratio", "upper_shadow_ratio", "lower_shadow_ratio", "volume_change">>

-----------------------------------------------------------------------------
(* A float value: the real number arg, or its natural logarithm.           *)

Real(r) == [ln |-> FALSE, arg |-> r]
Ln(r) == [ln |-> TRUE, arg |-> r]
FZero == Real(RZero)
IsZero(x) == IF x.ln THEN x.arg = ROne ELSE x.arg = RZero

-----------------------------------------------------------------------------
(* OhlcvData: a frame of candles [open, high, low, close, volume].         *)

closes(df) == [i \in 1..Len(df) |-> df[i].close]
highs(df) == [i \in 1..Len(df) |-> df[i].high]
lows(df) == [i \in 1..Len(df) |-> df[i].low]
opens(df) == [i \in 1..Len(df) |-> df[i].open]
volumes(df) == [i \in 1..Len(df) |-> df[i].volume]

\* data.slice(offset, length) for offset >= 0: rows offset .. offset+length-1
\* (0-based), cut at the end of the frame.
slice(df, offset, length) ==
    SubSeq(df, offset + 1, IF offset + length > Len(df) THEN Len(df) ELSE offset + length)

-----------------------------------------------------------------------------
(* The private calculation methods of FeatureExtractor.                    *)

_calculate_sma(xs, period) ==
    IF Len(xs) < period \/ period = 0 THEN RZero
    ELSE Rat(SumTo(xs, Len(xs) - period + 1, Len(xs)), period)

\* ema = (value - ema) * multiplier + ema, multiplier = 2.0 / (period + 1.0)
EmaStep(ema, value, period) == (((value - ema) * 2) \div (period + 1)) + ema

\* The values ema takes in "ema = data[0]; for value in data[1:]: ema = ..."
\* after data[0], data[1], ...: EmaStates(xs, period)[i] is the ema of the first
\* i values.  xs and the states are in fixed point.  States[<<lo, hi, ema>>] runs
\* the loop over xs[lo..hi] (1-based) from ema; the range is halved so that the
\* evaluation stays shallow.
EmaStates(xs, period) ==
    LET States[a \in Nat \X Nat \X Int] ==
            IF a[1] > a[2] THEN <<>>
            ELSE IF a[1] = a[2] THEN <<EmaStep(a[3], xs[a[1]], period)>>
            ELSE LET mid == (a[1] + a[2]) \div 2
                     left == States[<<a[1], mid, a[3]>>]
                 IN  left \o States[<<mid + 1, a[2], left[Len(left)]>>]
    IN  <<xs[1]>> \o States[<<2, Len(xs), xs[1]>>]

_calculate_ema(xs, period) ==
    IF Len(xs) = 0 \/ period = 0 THEN 0
    ELSE Back(EmaStates(xs, period), 1)

\* _calculate_ema(xs[:i], period), states being EmaStates(xs, period): the loop
\* over the first i values passes through the same states.
PrefixEma(states, period, i) ==
    IF i = 0 \/ period = 0 THEN 0 ELSE states[i]

Fx(xs) == [i \in 1..Len(xs) |-> xs[i] * FxScale]

\* gains[k], losses[k] of the one-bar change into 0-based index k
Gain(cs, k) == IF cs[k + 1] - cs[k] > 0 THEN cs[k + 1] - cs[k] ELSE 0
Loss(cs, k) == IF cs[k + 1] - cs[k] > 0 THEN 0 ELSE Abs(cs[k + 1] - cs[k])

\* variant answering the neutral 50 when nothing moved at all
_calculate_rsi_NeutralWhenStill(cs, period) ==
    IF Len(cs) < period + 1 THEN RInt(50)
    ELSE LET n == Len(cs) - 1
             start == Max2(0, n - period)
             gains == [k \in 1..n |-> Gain(cs, k)]
             losses == [k \in 1..n |-> Loss(cs, k)]
             avg_gain == Rat(SumTo(gains, start + 1, n), n - start)
             avg_loss == Rat(SumTo(losses, start + 1, n), n - start)
         IN  IF avg_loss = RZero
             THEN (IF avg_gain = RZero THEN RInt(50) ELSE RInt(100))
             ELSE LET rs == RDiv(avg_gain, avg_loss)
                  IN  RSub(RInt(100), RDiv(RInt(100), RAdd(ROne, rs)))

_calculate_rsi(cs, period) ==
    IF Len(cs) < period + 1 THEN RInt(50)
    ELSE LET n == Len(cs) - 1
             start == Max2(0, n - period)
             gains == [k \in 1..n |-> Gain(cs, k)]
             losses == [k \in 1..n |-> Loss(cs, k)]
             avg_gain == Rat(SumTo(gains, start + 1, n), n - start)
             avg_loss == Rat(SumTo(losses, start + 1, n), n - start)
         IN  IF avg_loss = RZero THEN RInt(100)
             ELSE LET rs == RDiv(avg_gain, avg_loss)
                  IN  RSub(RInt(100), RDiv(RInt(100), RAdd(ROne, rs)))

RClamp(lo, hi, x) == RMax(lo, RMin(hi, x))

\* <<macd_line, signal_line>> of _calculate_macd, in fixed point
MacdLines(cs, fast_period, slow_period, signal_period) ==
    LET fx == Fx(cs)
        fast_states == IF Len(cs) > 0 THEN EmaStates(fx, fast_period) ELSE <<>>
        slow_states == IF Len(cs) > 0 THEN EmaStates(fx, slow_period) ELSE <<>>
        fast_ema == PrefixEma(fast_states, fast_period, Len(cs))
        slow_ema == PrefixEma(slow_states, slow_period, Len(cs))
        macd_line == fast_ema - slow_ema
        \* for i in range(slow_period, len(closes) + 1), closes[:i]
        n == Len(cs) + 1 - slow_period
        macd_history ==
            [j \in 1..(IF n > 0 THEN n ELSE 0) |->
                PrefixEma(fast_states, fast_period, slow_period + j - 1)
                - PrefixEma(slow_states, slow_period, slow_period + j - 1)]
        signal_line ==
            IF Len(macd_history) >= signal_period
            THEN _calculate_ema(macd_history, signal_period)
            ELSE macd_line
    IN  <<macd_line, signal_line>>

\* variant handing the signal ratio on as computed
_calculate_macd_Unclamped(cs, fast_period, slow_period, signal_period) ==
    LET lines == MacdLines(cs, fast_period, slow_period, signal_period)
        macd_line == lines[1]
        signal_line == lines[2]
        histogram == macd_line - signal_line
        current_price == IF Len(cs) > 0 THEN Back(cs, 1) ELSE 1
        norm_histogram ==
            IF current_price > 0
            THEN Rat(histogram * 100, current_price * FxScale)
            ELSE RZero
        signal_ratio ==
            IF Abs(signal_line) * 10000 > FxScale
            THEN RSub(Rat(macd_line, signal_line), ROne)
            ELSE RZero
    IN  <<norm_histogram, signal_ratio>>

\* <<norm_histogram, signal_ratio>>
_calculate_macd(cs, fast_period, slow_period, signal_period) ==
    LET fx == Fx(cs)
        fast_states == IF Len(cs) > 0 THEN EmaStates(fx, fast_period) ELSE <<>>
        slow_states == IF Len(cs) > 0 THEN EmaStates(fx, slow_period) ELSE <<>>
        fast_ema == PrefixEma(fast_states, fast_period, Len(cs))
        slow_ema == PrefixEma(slow_states, slow_period, Len(cs))
        macd_line == fast_ema - slow_ema
        \* for i in range(slow_period, len(closes) + 1), closes[:i]
        n == Len(cs) + 1 - slow_period
        macd_history ==
            [j \in 1..(IF n > 0 THEN n ELSE 0) |->
                PrefixEma(fast_states, fast_period, slow_period + j - 1)
                - PrefixEma(slow_states, slow_period, slow_period + j - 1)]
        signal_line ==
            IF Len(macd_history) >= signal_period
            THEN _calculate_ema(macd_history, signal_period)
            ELSE macd_line
        histogram == macd_line - signal_line
        current_price == IF Len(cs) > 0 THEN Back(cs, 1) ELSE 1
        norm_histogram ==
            IF current_price > 0
            THEN Rat(histogram * 100, current_price * FxScale)
            ELSE RZero
        signal_ratio ==
            IF Abs(signal_line) * 10000 > FxScale
            THEN RSub(Rat(macd_line, signal_line), ROne)
            ELSE RZero
    IN  <<norm_histogram, RClamp(RNeg(ROne), ROne, signal_ratio)>>

\* variant dividing by the bandwidth without looking at it
_calculate_bollinger_Unguarded(cs, period, std_dev_mult) ==
    IF Len(cs) < period THEN <<Rat(1, 2), RZero>>
    ELSE LET lo == Len(cs) - period + 1
             sum == SumTo(cs, lo, Len(cs))
             sumsq == SumTo([i \in 1..Len(cs) |-> cs[i] * cs[i]], lo, Len(cs))
             sma == Rat(sum, period)
             std_dev == Rat(ISqrt((period * sumsq - sum * sum) * SqrtScale * SqrtScale),
                            period * SqrtScale)
             upper_band == RAdd(sma, RMul(RInt(std_dev_mult), std_dev))
             lower_band == RSub(sma, RMul(RInt(std_dev_mult), std_dev))
             bandwidth == RSub(upper_band, lower_band)
             current_price == RInt(Back(cs, 1))
             percent_b == RDiv(RSub(current_price, lower_band), bandwidth)
             bandwidth_pct == IF RLt(RZero, sma) THEN RDiv(bandwidth, sma) ELSE RZero
         IN  <<RClamp(RZero, ROne, percent_b), bandwidth_pct>>

\* <<percent_b, bandwidth_pct>>
_calculate_bollinger(cs, period, std_dev_mult) ==
    IF Len(cs) < period THEN <<Rat(1, 2), RZero>>
    ELSE LET lo == Len(cs) - period + 1
             sum == SumTo(cs, lo, Len(cs))
             sumsq == SumTo([i \in 1..Len(cs) |-> cs[i] * cs[i]], lo, Len(cs))
             sma == Rat(sum, period)
             \* np.std: sqrt(mean((x - mean)^2)) = sqrt(period*sumsq - sum^2) / period
             std_dev == Rat(ISqrt((period * sumsq - sum * sum) * SqrtScale * SqrtScale),
                            period * SqrtScale)
             upper_band == RAdd(sma, RMul(RInt(std_dev_mult), std_dev))
             lower_band == RSub(sma, RMul(RInt(std_dev_mult), std_dev))
             bandwidth == RSub(upper_band, lower_band)
             current_price == RInt(Back(cs, 1))
             percent_b ==
                 IF RLt(RZero, bandwidth)
                 THEN RDiv(RSub(current_price, lower_band), bandwidth)
                 ELSE Rat(1, 2)
             bandwidth_pct == IF RLt(RZero, sma) THEN RDiv(bandwidth, sma) ELSE RZero
         IN  <<RClamp(RZero, ROne, percent_b), bandwidth_pct>>

\* the true range of 0-based bar i >= 1
TrueRange(hs, ls, cs, i) ==
    Max2(hs[i + 1] - ls[i + 1],
         Max2(Abs(hs[i + 1] - cs[i]), Abs(ls[i + 1] - cs[i])))

_calculate_atr(hs, ls, cs, period) ==
    IF Len(hs) < period + 1 \/ Len(hs) # Len(ls) \/ Len(hs) # Len(cs) THEN RZero
    ELSE LET n == Len(hs) - 1
             true_ranges == [i \in 1..n |-> TrueRange(hs, ls, cs, i)]
         IN  IF n < period
             THEN (IF n > 0 THEN Rat(SumTo(true_ranges, 1, n), n) ELSE RZero)
             ELSE Rat(SumTo(true_ranges, n - period + 1, n), period)

\* variant dividing by the past close without looking at it
_calculate_return_Unguarded(cs, period) ==
    IF Len(cs) <= period THEN FZero
    ELSE LET current == Back(cs, 1)
             past == Back(cs, 1 + period)
         IN  Real(RSub(Rat(current, past), ROne))

_calculate_return(cs, period) ==
    IF Len(cs) <= period THEN FZero
    ELSE LET current == Back(cs, 1)
             past == Back(cs, 1 + period)
         IN  IF past > 0 THEN Real(RSub(Rat(current, past), ROne)) ELSE FZero

_calculate_log_return(cs, period) ==
    IF Len(cs) <= period THEN FZero
    ELSE LET current == Back(cs, 1)
             past == Back(cs, 1 + period)
         IN  IF past > 0 /\ current > 0 THEN Ln(Rat(current, past)) ELSE FZero

-----------------------------------------------------------------------------
(* FeatureExtractor.extract.  A feature is [q, p, v]: the quantity that    *)
(* was computed, the period it was computed for (0: none) and its value.   *)

Feature(q, p, v) == [q |-> q, p |-> p, v |-> v]

Raised(required, actual) ==
    [raised |-> TRUE, required |-> required, actual |-> actual,
     values |-> <<>>, names |-> <<>>]

Returned(values, names) ==
    [raised |-> FALSE, required |-> 0, actual |-> 0,
     values |-> values, names |-> names]

\* (current_close / avg - 1.0) if avg > 0 else 0.0
PriceRatio(current_close, avg) ==
    IF RLt(RZero, avg) THEN Real(RSub(RDiv(RInt(current_close), avg), ROne)) ELSE FZero

SmaFeatures(df, cfg) ==
    [i \in 1..Len(cfg.sma_periods) |->
        Feature("sma_ratio", cfg.sma_periods[i],
                PriceRatio(Back(closes(df), 1),
                           _calculate_sma(closes(df), cfg.sma_periods[i])))]

EmaFeatures(df, cfg) ==
    [i \in 1..Len(cfg.ema_periods) |->
        Feature("ema_ratio", cfg.ema_periods[i],
                PriceRatio(Back(closes(df), 1),
                           Rat(_calculate_ema(Fx(closes(df)), cfg.ema_periods[i]),
                               FxScale)))]

RsiFeatures(df, cfg) ==
    <<Feature("rsi", 0,
              Real(RDiv(_calculate_rsi(closes(df), cfg.rsi_period), RInt(100))))>>

MacdFeatures(df, cfg) ==
    LET macd == _calculate_macd(closes(df), cfg.macd_params[1],
                                cfg.macd_params[2], cfg.macd_params[3])
    IN  <<Feature("macd_histogram", 0, Real(macd[1])),
          Feature("macd_signal_ratio", 0, Real(macd[2]))>>

BollingerFeatures(df, cfg) ==
    LET bb == _calculate_bollinger(closes(df), cfg.bb_period, cfg.bb_std_dev)
    IN  <<Feature("bb_percent_b", 0, Real(bb[1])),
          Feature("bb_bandwidth", 0, Real(bb[2]))>>

AtrFeatures(df, cfg) ==
    LET atr == _calculate_atr(highs(df), lows(df), closes(df), cfg.atr_period)
        current_close == Back(closes(df), 1)
    IN  <<Feature("atr_ratio", 0,
                  IF current_close > 0
                  THEN Real(RDiv(atr, RInt(current_close)))
                  ELSE FZero)>>

ReturnFeatures(df, cfg) ==
    [i \in 1..Len(cfg.return_periods) |->
        Feature("return", cfg.return_periods[i],
                _calculate_return(closes(df), cfg.return_periods[i]))]

LogReturnFeatures(df, cfg) ==
    [i \in 1..Len(cfg.return_periods) |->
        Feature("log_return", cfg.return_periods[i],
                _calculate_log_return(closes(df), cfg.return_periods[i]))]

\* variant measuring both shadows the bullish way
CandleFeatures_AlwaysBullish(df) ==
    LET current_close == Back(closes(df), 1)
        current_high == Back(highs(df), 1)
        current_low == Back(lows(df), 1)
        current_open == Back(opens(df), 1)
        candle_range == current_high - current_low
        body == Abs(current_close - current_open)
        upper_shadow == current_high - current_close
        lower_shadow == current_open - current_low
        Ratio(x) == IF candle_range > 0 THEN Real(Rat(x, candle_range)) ELSE FZero
    IN  <<Feature("body_ratio", 0, Ratio(body)),
          Feature("upper_shadow_ratio", 0, Ratio(upper_shadow)),
          Feature("lower_shadow_ratio", 0, Ratio(lower_shadow))>>

CandleFeatures(df) ==
    LET current_close == Back(closes(df), 1)
        current_high == Back(highs(df), 1)
        current_low == Back(lows(df), 1)
        current_open == Back(opens(df), 1)
        candle_range == current_high - current_low
        body == Abs(current_close - current_open)
        upper_shadow ==
            IF current_close > current_open
            THEN current_high - current_close
            ELSE current_high - current_open
        lower_shadow ==
            IF current_close > current_open
            THEN current_open - current_low
            ELSE current_close - current_low
        Ratio(x) == IF candle_range > 0 THEN Real(Rat(x, candle_range)) ELSE FZero
    IN  <<Feature("body_ratio", 0, Ratio(body)),
          Feature("upper_shadow_ratio", 0, Ratio(upper_shadow)),
          Feature("lower_shadow_ratio", 0, Ratio(lower_shadow))>>

VolumeFeatures(df) ==
    LET vs == volumes(df)
        prev_volume == IF Len(vs) >= 2 THEN Back(vs, 2) ELSE Back(vs, 1)
        current_volume == Back(vs, 1)
        volume_change ==
            IF prev_volume > 0
            THEN RSub(Rat(current_volume, prev_volume), ROne)
            ELSE RZero
    IN  <<Feature("volume_change", 0, Real(RClamp(RInt(-2), RInt(2), volume_change)))>>

\* the list `features` at the end of extract
Features(df, cfg) ==
    SmaFeatures(df, cfg)
    \o EmaFeatures(df, cfg)
    \o RsiFeatures(df, cfg)
    \o MacdFeatures(df, cfg)
    \o BollingerFeatures(df, cfg)
    \o AtrFeatures(df, cfg)
    \o ReturnFeatures(df, cfg)
    \o LogReturnFeatures(df, cfg)
    \o CandleFeatures(df)
    \o VolumeFeatures(df)

\* variant letting through a series one candle short
TooShort_OneShort(df, min_required) == Len(df) + 1 < min_required

\* variant refusing a series of exactly the required length
TooShort_AtMost(df, min_required) == Len(df) <= min_required

TooShort(df, min_required) == Len(df) < min_required

extract(df, cfg) ==
    LET min_required == min_klines_required(cfg)
    IN  IF TooShort(df, min_required)
        THEN Raised(min_required, Len(df))
        ELSE Returned(Features(df, cfg), feature_names(cfg))

-----------------------------------------------------------------------------
(* FeatureExtractor.extract_batch.                                         *)

BatchRaised(r) ==
    [raised |-> TRUE, required |-> r.required, actual |-> r.actual, vectors |-> <<>>]

BatchReturned(features) ==
    [raised |-> FALSE, required |-> 0, actual |-> 0, vectors |-> features]

\* window_size or self.config.min_klines_required(); 0 stands for None too
WindowOf(window_size, cfg) ==
    IF window_size # 0 THEN window_size ELSE min_klines_required(cfg)

\* the last i of range(window, len(data) + 1)
\* variant stopping the batch loop one window early
BatchLast_Short(df) == Len(df) - 1

BatchLast(df) == Len(df)

RECURSIVE BatchLoop(_, _, _, _, _)
\* What self.extract(slice_data) gives at each i of lo..hi, in order.
BatchLoop(df, cfg, window, lo, hi) ==
    IF lo > hi THEN <<>>
    ELSE IF lo = hi THEN <<extract(slice(df, lo - window, window), cfg)>>
    ELSE BatchLoop(df, cfg, window, lo, (lo + hi) \div 2)
         \o BatchLoop(df, cfg, window, ((lo + hi) \div 2) + 1, hi)

\* the first k with outs[k] an exception, 0 if none
FirstRaised(outs) ==
    IF \A k \in 1..Len(outs) : ~outs[k].raised THEN 0
    ELSE CHOOSE k \in 1..Len(outs) :
            outs[k].raised /\ \A j \in 1..(k - 1) : ~outs[j].raised

\* The loop ends at the first extract that raises, and the exception leaves
\* extract_batch; otherwise every FeatureVector is appended.
extract_batch(df, window_size, cfg) ==
    LET window == WindowOf(window_size, cfg)
        outs == BatchLoop(df, cfg, window, window, BatchLast(df))
        bad == FirstRaised(outs)
    IN  IF bad # 0 THEN BatchRaised(outs[bad])
        ELSE BatchReturned([k \in 1..Len(outs) |->
                               [values |-> outs[k].values, names |-> outs[k].names]])

-----------------------------------------------------------------------------
(* FeatureExtractor.extract_with_labels.                                   *)

\* closes[i + future_periods] / closes[i] - 1.0 in float64: a zero divisor
\* gives an infinity or NaN, not an exception.
FutureReturn(c_future, c_base) ==
    IF c_base # 0 THEN [kind |-> "finite", r |-> RSub(Rat(c_future, c_base), ROne)]
    ELSE [kind |-> IF c_future > 0 THEN "inf" ELSE IF c_future < 0 THEN "-inf" ELSE "nan",
          r |-> RZero]

\* x > t and x < t for a float x and a finite t
FGt(x, t) == x.kind = "inf" \/ (x.kind = "finite" /\ RLt(t, x.r))
FLt(x, t) == x.kind = "-inf" \/ (x.kind = "finite" /\ RLt(x.r, t))

LabelUp == 2
LabelFlat == 1
LabelDown == 0

\* variant with inclusive comparisons
LabelOf_Inclusive(future_return, threshold) ==
    IF ~FLt(future_return, threshold) /\ future_return.kind # "nan" THEN LabelUp
    ELSE IF ~FGt(future_return, RNeg(threshold)) /\ future_return.kind # "nan" THEN LabelDown
    ELSE LabelFlat

LabelOf(future_return, threshold) ==
    IF FGt(future_return, threshold) THEN LabelUp
    ELSE IF FLt(future_return, RNeg(threshold)) THEN LabelDown
    ELSE LabelFlat

LabelsRaised(r) ==
    [raised |-> TRUE, required |-> r.required, actual |-> r.actual,
     X |-> <<>>, y |-> <<>>, ends |-> <<>>, returns |-> <<>>]

\* the last i of range(window, len(data) - future_periods)
LabelLast(df, future_periods) == Len(df) - future_periods - 1

\* 0-based index into closes of the base of the label computed at i
LabelBase(i) == i

\* variant extracting from the window that ends at the future candle
LabelStep_LooksAhead(df, cfg, window, future_periods, threshold, i) ==
    LET slice_data == slice(df, i - window, window)
        future_return == FutureReturn(closes(df)[LabelBase(i) + future_periods + 1],
                                      closes(df)[LabelBase(i) + 1])
    IN  [features |-> extract(slice(df, i + future_periods + 1 - window, window), cfg),
         end |-> (i - window) + Len(slice_data) - 1,
         future_return |-> future_return,
         label |-> LabelOf(future_return, threshold)]

\* variant taking the window that ends at the base of the label
LabelStep_WindowEndsAtBase(df, cfg, window, future_periods, threshold, i) ==
    LET slice_data == slice(df, i - window + 1, window)
        future_return == FutureReturn(closes(df)[LabelBase(i) + future_periods + 1],
                                      closes(df)[LabelBase(i) + 1])
    IN  [features |-> extract(slice_data, cfg),
         end |-> (i - window + 1) + Len(slice_data) - 1,
         future_return |-> future_return,
         label |-> LabelOf(future_return, threshold)]

\* One pass of the loop body at i: the extract outcome, the 0-based index in
\* data of the last candle of slice_data, future_return and the label.
LabelStep(df, cfg, window, future_periods, threshold, i) ==
    LET slice_data == slice(df, i - window, window)
        future_return == FutureReturn(closes(df)[LabelBase(i) + future_periods + 1],
                                      closes(df)[LabelBase(i) + 1])
    IN  [features |-> extract(slice_data, cfg),
         end |-> (i - window) + Len(slice_data) - 1,
         future_return |-> future_return,
         label |-> LabelOf(future_return, threshold)]

RECURSIVE LabelsLoop(_, _, _, _, _, _, _)
\* The passes of the loop body at each i of lo..hi, in order.
LabelsLoop(df, cfg, window, future_periods, threshold, lo, hi) ==
    IF lo > hi THEN <<>>
    ELSE IF lo = hi THEN <<LabelStep(df, cfg, window, future_periods, threshold, lo)>>
    ELSE LabelsLoop(df, cfg, window, future_periods, threshold, lo, (lo + hi) \div 2)
         \o LabelsLoop(df, cfg, window, future_periods, threshold,
                       ((lo + hi) \div 2) + 1, hi)

\* X and y are X_list and y_list.  ends and returns record, per sample, where
\* the feature window ended and the future_return the label was derived from.
extract_with_labels(df, future_periods, threshold, cfg) ==
    LET window == min_klines_required(cfg)
        steps == LabelsLoop(df, cfg, window, future_periods, threshold,
                            window, LabelLast(df, future_periods))
        bad == FirstRaised([k \in 1..Len(steps) |-> steps[k].features])
    IN  IF bad # 0 THEN LabelsRaised(steps[bad].features)
        ELSE [raised |-> FALSE, required |-> 0, actual |-> 0,
              X |-> [k \in 1..Len(steps) |-> steps[k].features.values],
              y |-> [k \in 1..Len(steps) |-> steps[k].label],
              ends |-> [k \in 1..Len(steps) |-> steps[k].end],
              returns |-> [k \in 1..Len(steps) |-> steps[k].future_return]]

-----------------------------------------------------------------------------
(* The inputs: candle series and configurations.                           *)

ZigZag == <<100, 102, 100, 98, 100, 105, 100, 95>>
\* 0-based index of the candle of the "zero" series that closes at 0
ZeroAt == MinKlinesFloor + 1
\* 0-based index of the candle of the "zero" series that closes below 0
NegativeAt == MinKlinesFloor + 3

\* candle i (0-based) of the series of a shape
Candle(shape, i) ==
    CASE shape = "flat" ->
            [open |-> 100, high |-> 100, low |-> 100, close |-> 100, volume |-> 1000]
      [] shape = "ramp" ->
            [open |-> 99 + i, high |-> 102 + i, low |-> 98 + i, close |-> 100 + i,
             volume |-> 1000 + 10 * i]
      [] shape = "zigzag" ->
            LET c == ZigZag[(i % 8) + 1]
                \* opens at the previous close; at the peak it opens where it closes
                o == IF i % 8 = 5 THEN c ELSE ZigZag[((i + 7) % 8) + 1]
            IN  [open |-> o, high |-> Max2(o, c) + (i % 3), low |-> -Max2(-o, -c) - (i % 2),
                 close |-> c, volume |-> 500 * (i % 4) * (i % 4)]
      [] shape = "zero" ->
            LET c == IF i = ZeroAt THEN 0 ELSE IF i = NegativeAt THEN -5 ELSE 100 + i
            IN  [open |-> 99 + i, high |-> 102 + i,
                 low |-> IF c <= 0 THEN c ELSE 98 + i,
                 close |-> c, volume |-> 1000]

Shapes == {"flat", "ramp", "zigzag", "zero"}

Series(shape, n) == [k \in 1..n |-> Candle(shape, k - 1)]

EmptyListsConfig ==
    [DefaultConfig EXCEPT !.sma_periods = <<>>, !.ema_periods = <<>>,
                          !.return_periods = <<>>]

LongConfig ==
    [DefaultConfig EXCEPT !.sma_periods = <<10, MinKlinesFloor + 2>>,
                          !.atr_period = MinKlinesFloor + 2,
                          !.return_periods = <<2>>]

\* configurations FeatureConfig(...) builds as well: MACD fast period above the
\* slow one, and a period of 0
FastAboveSlowConfig == [DefaultConfig EXCEPT !.macd_params = <<26, 12, 9>>]
ZeroPeriodConfig == [DefaultConfig EXCEPT !.sma_periods = <<0, 5>>]

Configs ==
    {DefaultConfig, EmptyListsConfig, LongConfig, FastAboveSlowConfig, ZeroPeriodConfig}

\* every choice of periods around the floor of min_klines_required
ConfigSpace ==
    [sma_periods : {<<>>, <<5, 10, 20, 50>>, <<7, MinKlinesFloor + 2>>},
     ema_periods : {<<>>, <<12, 26>>, <<MinKlinesFloor + 1>>},
     rsi_period : {14, MinKlinesFloor, MinKlinesFloor + 6},
     macd_params : {<<12, 26, 9>>, <<12, 26, MinKlinesFloor - 23>>},
     bb_period : {20, MinKlinesFloor + 3},
     bb_std_dev : {2},
     atr_period : {14, MinKlinesFloor + 2},
     return_periods : {<<>>, <<1, 5, 10>>, <<MinKlinesFloor, 1>>}]

\* length of the long series the configurations of ConfigSpace are tried on
CfgLen == MinKlinesFloor + 3

DefaultFuturePeriods == 5
FuturePeriods == (1..MaxFuture) \cup {DefaultFuturePeriods}
\* 0.02 (the default) and 0.05
Thresholds == {<<1, 50>>, <<1, 20>>}
\* 0: the default (None)
WindowSizes == {0, 10, MinKlinesFloor, MinKlinesFloor + 2, MaxLen - 1, MaxLen + 1}

-----------------------------------------------------------------------------
(* FeatureVector.standardize.                                              *)

\* two feature values are the same number
SameValue(x, y) == x = y \/ (IsZero(x) /\ IsZero(y))

\* std > 0: the values are not all the same number
StdPositive(values) ==
    \E j, k \in 1..Len(values) : ~SameValue(values[j].v, values[k].v)

\* (value - mean) / std of a vector whose std is positive, kept symbolic
Standardized(v) == [standardized |-> v]

\* self.values after standardize(): rebound to (self.values - mean) / std if
\* std > 0, left alone otherwise
standardize(values) ==
    IF StdPositive(values)
    THEN [j \in 1..Len(values) |-> [values[j] EXCEPT !.v = Standardized(values[j].v)]]
    ELSE values

-----------------------------------------------------------------------------
(* tools FeatureEngineer.prepare_ml_data: X, y from a frame of features.   *)

MaxRows == 8

\* A frame as prepare_ml_data receives it: per row its position, the Close
\* column and one feature column, NaN on the first `warmup` rows.
FeatureFrame(df, warmup) ==
    [i \in 1..Len(df) |->
        [row |-> i - 1, Close |-> df[i].close,
         feature |-> [nan |-> i <= warmup, v |-> df[i].volume]]]

NaN == [kind |-> "nan", r |-> RZero]

\* result["Close"].shift(-target_horizon) / result["Close"] - 1, per row
future_returns(frame, target_horizon) ==
    [i \in 1..Len(frame) |->
        IF i + target_horizon \in 1..Len(frame)
        THEN FutureReturn(frame[i + target_horizon].Close, frame[i].Close)
        ELSE NaN]

TargetTypes == {"direction", "returns", "multi_class"}

\* pd.cut(x, bins=[-inf, -0.01, 0.01, inf], labels=[0, 1, 2]): the bins are
\* open on the left and closed on the right; NaN and -inf fall in no bin
CutMissing(x) == x.kind \in {"nan", "-inf"}
Cut(x) ==
    IF x.kind = "inf" THEN 2
    ELSE IF ~RLt(Rat(-1, 100), x.r) THEN 0
    ELSE IF ~RLt(Rat(1, 100), x.r) THEN 1
    ELSE 2

\* result["target"] of one row.  (future_returns > 0) is False on NaN, and
\* astype(int) makes it 0.
Target(x, target_type) ==
    CASE target_type = "direction" ->
            [nan |-> FALSE, v |-> IF FGt(x, RZero) THEN 1 ELSE 0]
      [] target_type = "returns" -> [nan |-> x.kind = "nan", v |-> x]
      [] target_type = "multi_class" -> [nan |-> FALSE, v |-> Cut(x)]

PrepareRaised == [raised |-> TRUE, rows |-> <<>>, X |-> <<>>, y |-> <<>>]

\* rows |-> the positions in df of the rows X and y were taken from
prepare_ml_data(frame, target_horizon, target_type) ==
    LET returns == future_returns(frame, target_horizon)
    IN  IF target_type \notin TargetTypes THEN PrepareRaised
        \* astype(int) of a categorical holding NaN raises ValueError
        ELSE IF target_type = "multi_class"
                /\ \E i \in 1..Len(frame) : CutMissing(returns[i])
        THEN PrepareRaised
        ELSE LET result_ == [i \in 1..Len(frame) |->
                                [row |-> frame[i].row,
                                 feature |-> frame[i].feature,
                                 target |-> Target(returns[i], target_type)]]
                 NotNa(r) == ~r.feature.nan /\ ~r.target.nan
                 kept == SelectSeq(result_, NotNa)
             IN  [raised |-> FALSE,
                  rows |-> [k \in 1..Len(kept) |-> kept[k].row],
                  X |-> [k \in 1..Len(kept) |-> <<kept[k].feature.v>>],
                  y |-> [k \in 1..Len(kept) |-> kept[k].target.v]]

TargetHorizons == {1, 2, 5}
Warmups == {0, 2}

-----------------------------------------------------------------------------
(* The state machine.  Callers share one extractor (config) and one series *)
(* (data).  Each caller calls one of the three public methods, holds the   *)
(* outcome (pcs = "done"), may standardize a returned FeatureVector or     *)
(* iterate over a returned list, and drops the outcome.  A call is one     *)
(* step: the methods read config and data and write nothing callers share. *)

NoCall == [op |-> "none", window_size |-> 0, future_periods |-> 0, threshold |-> RZero]
NoResult == [raised |-> FALSE]

Callers == DOMAIN pcs

\* the first caller
pc == pcs[1]
call == calls[1]
result == results[1]

\* what a call leaves in self.config and in the caller's series: both are only
\* read (the windows are new OhlcvData objects)
\* variant sorting the return periods of the shared configuration in place
ConfigAfter_SortedInPlace(cfg) ==
    LET ps == cfg.return_periods
        range == {ps[i] : i \in 1..Len(ps)}
    IN  [cfg EXCEPT !.return_periods =
            [i \in 1..Cardinality(range) |->
                CHOOSE x \in range : Cardinality({y \in range : y < x}) = i - 1]]

ConfigAfter(cfg) == cfg

\* variant leaving its last window in the caller's series
DataAfter_LastWindow(df) ==
    slice(df, Max2(0, Len(df) - MinKlinesFloor), MinKlinesFloor)

DataAfter(df) == df

Idle(n) ==
    /\ pcs = [c \in 1..n |-> "idle"]
    /\ calls = [c \in 1..n |-> NoCall]
    /\ results = [c \in 1..n |-> NoResult]
    /\ taken = [c \in 1..n |-> 0]

\* the 60-candle flat series
ScenarioLen == MinKlinesFloor + 10

Init ==
    /\ config \in Configs
    /\ data \in {Series(shape, n) : shape \in Shapes, n \in 0..MaxLen}
                \cup {Series("flat", ScenarioLen)}
    /\ Idle(1)

InitCfg ==
    /\ config \in ConfigSpace
    /\ data \in {Series("ramp", 10), Series("zigzag", CfgLen)}
    /\ Idle(1)

\* two callers sharing the extractor and the series
UnsortedConfig == [DefaultConfig EXCEPT !.return_periods = <<5, 1>>]

InitConc ==
    /\ config \in {DefaultConfig, UnsortedConfig}
    /\ data = Series("zigzag", MinKlinesFloor + 2)
    /\ Idle(2)

\* the state after caller c got outcome out of the call op(args)
Called(c, args, out) ==
    /\ pcs[c] = "idle"
    /\ calls' = [calls EXCEPT ![c] = args]
    /\ results' = [results EXCEPT ![c] = out]
    /\ pcs' = [pcs EXCEPT ![c] = "done"]
    /\ config' = ConfigAfter(config)
    /\ data' = DataAfter(data)
    /\ UNCHANGED taken

CallExtract(c) ==
    Called(c, [NoCall EXCEPT !.op = "extract"], extract(data, config))

CallExtractBatch(c, window_size) ==
    Called(c, [NoCall EXCEPT !.op = "extract_batch", !.window_size = window_size],
           extract_batch(data, window_size, config))

CallExtractWithLabels(c, future_periods, threshold) ==
    Called(c, [NoCall EXCEPT !.op = "extract_with_labels",
                             !.future_periods = future_periods,
                             !.threshold = threshold],
           extract_with_labels(data, future_periods, threshold, config))

\* caller c calls standardize() on the FeatureVector extract returned
Standardize(c) ==
    /\ pcs[c] = "done"
    /\ calls[c].op = "extract"
    /\ ~results[c].raised
    /\ results' = [results EXCEPT ![c].values = standardize(results[c].values)]
    /\ pcs' = [pcs EXCEPT ![c] = "standardized"]
    /\ UNCHANGED <<config, data, calls, taken>>

\* caller c takes the next FeatureVector of the list extract_batch returned
TakeNext(c) ==
    /\ pcs[c] = "done"
    /\ calls[c].op = "extract_batch"
    /\ ~results[c].raised
    /\ taken[c] < Len(results[c].vectors)
    /\ taken' = [taken EXCEPT ![c] = taken[c] + 1]
    /\ UNCHANGED <<config, data, pcs, calls, results>>

\* caller c drops the outcome
Return(c) ==
    /\ pcs[c] \in {"done", "standardized"}
    /\ pcs' = [pcs EXCEPT ![c] = "idle"]
    /\ calls' = [calls EXCEPT ![c] = NoCall]
    /\ results' = [results EXCEPT ![c] = NoResult]
    /\ taken' = [taken EXCEPT ![c] = 0]
    /\ UNCHANGED <<config, data>>

Next ==
    \/ \E c \in Callers : CallExtract(c)
    \/ \E c \in Callers, window_size \in WindowSizes : CallExtractBatch(c, window_size)
    \/ \E c \in Callers, future_periods \in FuturePeriods, threshold \in Thresholds :
          CallExtractWithLabels(c, future_periods, threshold)
    \/ \E c \in Callers : Standardize(c)
    \/ \E c \in Callers : TakeNext(c)
    \/ \E c \in Callers : Return(c)

Spec == Init /\ [][Next]_vars

SpecConc == InitConc /\ [][Next]_vars

SpecCfg == InitCfg /\ [][Next]_vars

\* the caller of the tools FeatureEngineer: prepare_ml_data works on a copy of
\* the frame
CallPrepareMlData(c, warmup, target_horizon, target_type) ==
    /\ pcs[c] = "idle"
    /\ calls' = [calls EXCEPT ![c] =
                    [op |-> "prepare_ml_data", warmup |-> warmup,
                     target_horizon |-> target_horizon, target_type |-> target_type]]
    /\ results' = [results EXCEPT ![c] =
                      prepare_ml_data(FeatureFrame(data, warmup), target_horizon,
                                      target_type)]
    /\ pcs' = [pcs EXCEPT ![c] = "done"]
    /\ UNCHANGED <<config, data, taken>>

InitTools ==
    /\ config = DefaultConfig
    /\ data \in {Series(shape, n) : shape \in Shapes, n \in 0..MaxRows}
    /\ Idle(1)

NextTools ==
    \/ \E c \in Callers, warmup \in Warmups, target_horizon \in TargetHorizons,
          target_type \in TargetTypes \cup {"volatility"} :
          CallPrepareMlData(c, warmup, target_horizon, target_type)
    \/ \E c \in Callers : Return(c)

SpecTools == InitTools /\ [][NextTools]_vars

-----------------------------------------------------------------------------
(* Properties.                                                             *)

IsExtract == pc = "done" /\ call.op = "extract"
IsBatch == pc = "done" /\ call.op = "extract_batch"
IsLabels == pc = "done" /\ call.op = "extract_with_labels"

\* C1: extract raises the insufficient-data error exactly when the series is
\* shorter than min_klines_required(), the error reports required =
\* min_klines_required() and actual = len(series), and otherwise extract
\* returns a feature vector.
C1_ExtractInsufficientData ==
    IsExtract =>
        /\ result.raised <=> Len(data) < min_klines_required(config)
        /\ result.raised =>
              /\ result.required = min_klines_required(config)
              /\ result.actual = Len(data)
        /\ ~result.raised => Len(result.values) > 0

\* the 10-candle scenario under the default configuration
C1_Witness ==
    /\ IsExtract
    /\ config = DefaultConfig
    /\ Len(data) = 10
    /\ result.raised
    /\ result.required = 50
    /\ result.actual = 10

\* C2 (as claimed): every labeled sample's forward return is
\* close[e + future_periods] / close[e] - 1 with e the index of the last candle
\* of the sample's feature window.
C2_LabelBaseIsWindowEnd ==
    (IsLabels /\ ~result.raised) =>
        \A k \in 1..Len(result.X) :
            result.returns[k] =
                FutureReturn(closes(data)[result.ends[k] + call.future_periods + 1],
                             closes(data)[result.ends[k] + 1])

\* C3 (as claimed): one labeled sample per window end from window-1 to
\* len-future_periods-1, i.e. max(0, len - window - future_periods + 1) samples
\* in increasing order, with as many labels as feature rows.
C3_OneSamplePerIndex ==
    (IsLabels /\ ~result.raised) =>
        LET window == min_klines_required(config)
            count == Max2(0, Len(data) - window - call.future_periods + 1)
        IN  /\ Len(result.X) = count
            /\ Len(result.y) = Len(result.X)
            /\ result.ends = [k \in 1..count |-> window - 1 + (k - 1)]

\* C4: the label is Up (2) iff the forward return is strictly above threshold,
\* Down (0) iff strictly below -threshold, Flat (1) otherwise; a forward return
\* of exactly +threshold or -threshold is Flat.
C4_LabelThresholds ==
    (IsLabels /\ ~result.raised) =>
        \A k \in 1..Len(result.y) :
            LET fr == result.returns[k]
                above == fr.kind = "inf" \/ (fr.kind = "finite" /\ RLt(call.threshold, fr.r))
                below == fr.kind = "-inf"
                         \/ (fr.kind = "finite" /\ RLt(fr.r, RNeg(call.threshold)))
            IN  /\ result.y[k] = LabelUp <=> above
                /\ result.y[k] = LabelDown <=> below
                /\ result.y[k] = LabelFlat <=> (~above /\ ~below)
                /\ (fr.kind = "finite" /\ fr.r \in {call.threshold, RNeg(call.threshold)})
                       => result.y[k] = LabelFlat

\* one result holding a sample at exactly +threshold and one at exactly
\* -threshold, both Flat
C4_Witness ==
    /\ IsLabels
    /\ ~result.raised
    /\ \E k1, k2 \in 1..Len(result.y) :
          /\ result.returns[k1] = [kind |-> "finite", r |-> call.threshold]
          /\ result.returns[k2] = [kind |-> "finite", r |-> RNeg(call.threshold)]
          /\ result.y[k1] = LabelFlat
          /\ result.y[k2] = LabelFlat

\* C5 (as claimed): for every series and window size extract_batch returns
\* exactly max(0, len(series) - window + 1) feature vectors.
C5_BatchCount ==
    IsBatch =>
        /\ ~result.raised
        /\ Len(result.vectors) =
              Max2(0, Len(data) - WindowOf(call.window_size, config) + 1)

\* C6: the k-th vector returned by extract_batch (k = 0, 1, ...) is extract of
\* the sub-series of exactly window candles ending at index window-1+k, and the
\* last vector ends at index len(series)-1.
C6_BatchVectorIsExtractOfWindow ==
    (IsBatch /\ ~result.raised) =>
        LET window == WindowOf(call.window_size, config)
            n == Len(result.vectors)
        IN  /\ \A k \in 0..(n - 1) :
                  LET single == extract(SubSeq(data, k + 1, k + window), config)
                  IN  /\ ~single.raised
                      /\ result.vectors[k + 1].values = single.values
                      /\ result.vectors[k + 1].names = single.names
            /\ n > 0 => window - 1 + (n - 1) = Len(data) - 1

\* a batch over an explicit window size that returned several vectors
C6_Witness ==
    /\ IsBatch
    /\ ~result.raised
    /\ call.window_size # 0
    /\ Len(result.vectors) >= 2
    /\ result.vectors[1] # result.vectors[2]

\* C7 (as claimed): extract_batch and extract_with_labels never fail with the
\* insufficient-data error, whatever the series length, window_size and
\* future_periods.
C7_BatchPathsNeverRaise ==
    (IsBatch \/ IsLabels) => ~result.raised

\* C8: when extract returns, the number of values equals feature_count(),
\* len(feature_names()) and the length of the returned names.
C8_FeatureCount ==
    (IsExtract /\ ~result.raised) =>
        /\ Len(result.values) = feature_count(config)
        /\ feature_count(config) = Len(feature_names(config))
        /\ Len(result.names) = Len(result.values)

\* an extraction under a configuration that is not the default one
C8_Witness ==
    /\ IsExtract
    /\ ~result.raised
    /\ config.sma_periods = <<7, MinKlinesFloor + 2>>
    /\ config.return_periods = <<>>
    /\ Len(result.values) = 2 + Len(config.ema_periods) + 10

\* the name the module docstring and feature_names give to a quantity
QuantityName(q, p) ==
    CASE q = "sma_ratio" -> "sma_" \o ToString(p) \o "_ratio"
      [] q = "ema_ratio" -> "ema_" \o ToString(p) \o "_ratio"
      [] q = "return" -> "return_" \o ToString(p)
      [] q = "log_return" -> "log_return_" \o ToString(p)
      [] OTHER -> q

Tagged(q, periods) == [i \in 1..Len(periods) |-> <<q, periods[i]>>]

\* the canonical order of the quantities for a configuration
CanonicalOrder(cfg) ==
    Tagged("sma_ratio", cfg.sma_periods)
    \o Tagged("ema_ratio", cfg.ema_periods)
    \o <<<<"rsi", 0>>, <<"macd_histogram", 0>>, <<"macd_signal_ratio", 0>>,
         <<"bb_percent_b", 0>>, <<"bb_bandwidth", 0>>, <<"atr_ratio", 0>>>>
    \o Tagged("return", cfg.return_periods)
    \o Tagged("log_return", cfg.return_periods)
    \o <<<<"body_ratio", 0>>, <<"upper_shadow_ratio", 0>>,
         <<"lower_shadow_ratio", 0>>, <<"volume_change", 0>>>>

\* the 22 names of the module docstring
DocstringNames ==
    <<"sma_5_ratio", "sma_10_ratio", "sma_20_ratio", "sma_50_ratio",
      "ema_12_ratio", "ema_26_ratio",
      "rsi",
      "macd_histogram", "macd_signal_ratio",
      "bb_percent_b", "bb_bandwidth",
      "atr_ratio",
      "return_1", "return_5", "return_10",
      "log_return_1", "log_return_5", "log_return_10",
      "body_ratio", "upper_shadow_ratio", "lower_shadow_ratio", "volume_change">>

\* C9: the values assembled by extract and feature_names() follow the same
\* canonical order, so values[j] is the quantity named names[j]; the default
\* configuration yields the 22 docstring names in order.
C9_CanonicalOrder ==
    /\ (IsExtract /\ ~result.raised) =>
          /\ result.names = feature_names(config)
          /\ [j \in 1..Len(result.values) |-> <<result.values[j].q, result.values[j].p>>]
                = CanonicalOrder(config)
          /\ Len(result.names) = Len(result.values)
          /\ \A j \in 1..Len(result.values) :
                result.names[j] = QuantityName(result.values[j].q, result.values[j].p)
    /\ feature_names(DefaultConfig) = DocstringNames

\* an extraction under the default configuration returning the docstring names
C9_Witness ==
    /\ IsExtract
    /\ ~result.raised
    /\ config = DefaultConfig
    /\ result.names = DocstringNames
    /\ Len(result.values) = 22

\* the quantities min_klines_required is the maximum of
WindowCandidates(cfg) ==
    {cfg.sma_periods[i] : i \in 1..Len(cfg.sma_periods)}
    \cup {cfg.ema_periods[i] : i \in 1..Len(cfg.ema_periods)}
    \cup {cfg.rsi_period + 1, cfg.macd_params[2] + cfg.macd_params[3],
          cfg.bb_period, cfg.atr_period, MinKlinesFloor}
    \cup (IF Len(cfg.return_periods) = 0 THEN {}
          ELSE {SeqMax(cfg.return_periods, 0) + 1})

\* C10: min_klines_required() is the maximum of every SMA period, every EMA
\* period, rsi_period + 1, macd_slow + macd_signal, the Bollinger period, the
\* ATR period, max(return_periods) + 1 and 50; it is never below 50, and it is
\* the length extract requires.
C10_MinWindowIsMax ==
    /\ min_klines_required(config) \in WindowCandidates(config)
    /\ \A m \in WindowCandidates(config) : m <= min_klines_required(config)
    /\ min_klines_required(config) >= 50
    /\ (IsExtract /\ result.raised) => result.required = min_klines_required(config)

\* extract refusing a short series under a configuration with empty period lists
C10_Witness ==
    /\ IsExtract
    /\ result.raised
    /\ config.sma_periods = <<>>
    /\ config.ema_periods = <<>>
    /\ config.return_periods = <<>>
    /\ config.rsi_period = 14
    /\ config.bb_period = 20
    /\ config.atr_period = 14
    /\ config.macd_params = <<12, 26, 9>>
    /\ result.required = 50

\* every period a configuration sets
ConfiguredPeriods(cfg) ==
    {cfg.sma_periods[i] : i \in 1..Len(cfg.sma_periods)}
    \cup {cfg.ema_periods[i] : i \in 1..Len(cfg.ema_periods)}
    \cup {cfg.return_periods[i] : i \in 1..Len(cfg.return_periods)}
    \cup {cfg.macd_params[i] : i \in 1..3}
    \cup {cfg.rsi_period, cfg.bb_period, cfg.atr_period}

\* MACD fast period >= slow period, or a non-positive period
InvalidConfig(cfg) ==
    \/ cfg.macd_params[1] >= cfg.macd_params[2]
    \/ \E p \in ConfiguredPeriods(cfg) : p <= 0

\* C11 (as claimed): a configuration whose MACD fast period is >= its slow
\* period, or with a non-positive period, is rejected at construction, so no
\* extraction is ever performed with it.
C11_InvalidConfigRejected ==
    InvalidConfig(config) => ~(IsExtract /\ ~result.raised)

\* all closes equal C > 0, high = low = open = close, constant positive volume
IsFlatSeries(df) ==
    /\ Len(df) >= 1
    /\ df[1].close > 0
    /\ df[1].volume > 0
    /\ \A i \in 1..Len(df) :
          /\ df[i].close = df[1].close
          /\ df[i].open = df[1].close
          /\ df[i].high = df[1].close
          /\ df[i].low = df[1].close
          /\ df[i].volume = df[1].volume

\* a feature value that is a number: not nan, not +-inf, no logarithm of a
\* non-positive number
FiniteValue(x) == RFinite(x.arg) /\ (x.ln => RLt(RZero, x.arg))

C13_FlatScenario ==
    (IsExtract /\ ~result.raised /\ config = DefaultConfig
     /\ data = Series("flat", ScenarioLen)) =>
        \A j \in 1..Len(result.values) :
            LET f == result.values[j]
            IN  IF f.q \in {"rsi", "bb_percent_b"} THEN f.v = Real(Rat(1, 2))
                ELSE IsZero(f.v)

\* none of the trailing `period` one-bar close differences is a loss
NoTrailingLoss(cs, period) ==
    \A k \in 1..(Len(cs) - 1) :
        k > Len(cs) - 1 - period => cs[k + 1] >= cs[k]

StrictlyIncreasing(cs) == \A k \in 1..(Len(cs) - 1) : cs[k + 1] > cs[k]

\* C14: RSI(period) is exactly 100 whenever the average loss over the trailing
\* `period` close differences is zero (so on every strictly increasing series
\* of at least period + 1 closes), and extract then emits the RSI feature 1.0.
C14_RsiHundredWithoutLoss ==
    /\ (Len(data) >= config.rsi_period + 1 /\ NoTrailingLoss(closes(data), config.rsi_period))
          => _calculate_rsi(closes(data), config.rsi_period) = RInt(100)
    /\ (IsExtract /\ ~result.raised /\ NoTrailingLoss(closes(data), config.rsi_period))
          => \E j \in 1..Len(result.values) :
                result.values[j].q = "rsi" /\ result.values[j].v = Real(ROne)

\* extract on a strictly increasing series
C14_Witness ==
    /\ IsExtract
    /\ ~result.raised
    /\ StrictlyIncreasing(closes(data))
    /\ Len(data) = MaxLen
    /\ \E j \in 1..Len(result.values) :
          result.values[j].q = "rsi" /\ result.values[j].v = Real(ROne)

\* C15: whatever the series holds (closes, ranges, volumes, standard
\* deviations or signal lines equal to zero, non-positive prices), every
\* division and logarithm of extract takes its guarded branch: extract ends
\* without error and no NaN or Infinity is among the values it returns.
C15_NoNanOrInfinity ==
    (IsExtract /\ Len(data) >= min_klines_required(config)) =>
        /\ ~result.raised
        /\ Len(result.values) = feature_count(config)
        /\ \A j \in 1..Len(result.values) : FiniteValue(result.values[j].v)

\* extract on a series whose last candle closes at 0 with a low of 0
C15_Witness ==
    /\ IsExtract
    /\ ~result.raised
    /\ Back(closes(data), 1) = 0
    /\ Back(lows(data), 1) = 0
    /\ \A j \in 1..Len(result.values) : FiniteValue(result.values[j].v)

\* the outcome of the call `args` made alone on the series and configuration
Alone(args) ==
    CASE args.op = "extract" -> extract(data, config)
      [] args.op = "extract_batch" -> extract_batch(data, args.window_size, config)
      [] args.op = "extract_with_labels" ->
            extract_with_labels(data, args.future_periods, args.threshold, config)

C18_VectorImmutable ==
    \A c \in Callers :
        (pcs[c] = "standardized") =>
            /\ results[c].values = extract(data, config).values
            /\ results[c].names = extract(data, config).names

\* C19 (as claimed): extract_batch produces its vectors lazily: no vector is
\* computed before the consumer has requested it, so when the consumer has
\* taken k vectors at most k have been computed.
C19_BatchLazy ==
    \A c \in Callers :
        (pcs[c] = "done" /\ calls[c].op = "extract_batch" /\ ~results[c].raised)
            => Len(results[c].vectors) <= taken[c]

\* the mean of the trailing `period` true ranges of a frame, of all its true
\* ranges when it has fewer than `period`
MeanOfTrailingTrueRanges(df, period) ==
    LET n == Len(df) - 1
        k == IF period < n THEN period ELSE n
        true_ranges == [i \in 1..n |-> TrueRange(highs(df), lows(df), closes(df), i)]
    IN  IF k <= 0 THEN RZero ELSE Rat(SumTo(true_ranges, n - k + 1, n), k)

\* C20 (as claimed): ATR(period) is the mean of the trailing `period` true
\* ranges, and of all available true ranges when fewer than `period` exist; so
\* is the ATR behind the atr_ratio of every extract, also on a series of exactly
\* min_klines_required() candles.
C20_AtrMeanOfAvailable ==
    (IsExtract /\ ~result.raised) =>
        LET atr == MeanOfTrailingTrueRanges(data, config.atr_period)
            current_close == Back(closes(data), 1)
        IN  /\ _calculate_atr(highs(data), lows(data), closes(data), config.atr_period) = atr
            /\ \E j \in 1..Len(result.values) :
                  /\ result.values[j].q = "atr_ratio"
                  /\ result.values[j].v =
                        (IF current_close > 0 THEN Real(RDiv(atr, RInt(current_close)))
                         ELSE FZero)

\* the value extract returned under the name q
ValueOf(q) ==
    LET j == CHOOSE j \in 1..Len(result.values) : result.values[j].q = q
    IN  result.values[j].v

\* C21 (as claimed): the MACD histogram feature of extract is
\* macd_line / current_price * 100, macd_line being EMA(fast) - EMA(slow) over
\* the whole slice, and 0 when current_price <= 0; signal_ratio is
\* macd_line / signal_line - 1 clamped to [-1, 1], and 0 whenever
\* |signal_line| < 1e-4.
C21_MacdLineOverPrice ==
    (IsExtract /\ ~result.raised) =>
        LET lines == MacdLines(closes(data), config.macd_params[1],
                               config.macd_params[2], config.macd_params[3])
            macd_line == lines[1]
            signal_line == lines[2]
            current_price == Back(closes(data), 1)
        IN  /\ ValueOf("macd_histogram") =
                  (IF current_price > 0
                   THEN Real(Rat(macd_line * 100, current_price * FxScale))
                   ELSE FZero)
            /\ Abs(signal_line) * 10000 < FxScale
                  => IsZero(ValueOf("macd_signal_ratio"))
            /\ Abs(signal_line) * 10000 > FxScale
                  => ValueOf("macd_signal_ratio") =
                        Real(RClamp(RNeg(ROne), ROne,
                                    RSub(Rat(macd_line, signal_line), ROne)))

\* a number within [lo, hi]
Within(lo, hi, x) ==
    /\ ~x.ln
    /\ RFinite(x.arg)
    /\ ~RLt(x.arg, RInt(lo))
    /\ ~RLt(RInt(hi), x.arg)

\* C22: of the values extract returns the RSI feature lies in [0, 1], %B in
\* [0, 1], the MACD signal ratio in [-1, 1] and the volume change in [-2, 2];
\* the volume change is 0 when the previous volume is not positive.
C22_BoundedFeatures ==
    (IsExtract /\ ~result.raised) =>
        /\ Within(0, 1, ValueOf("rsi"))
        /\ Within(0, 1, ValueOf("bb_percent_b"))
        /\ Within(-1, 1, ValueOf("macd_signal_ratio"))
        /\ Within(-2, 2, ValueOf("volume_change"))
        /\ data[Len(data) - 1].volume <= 0 => IsZero(ValueOf("volume_change"))

\* extract where the volume quadrupled and the MACD line is more than twice
\* the signal line: both values sit on their upper bound
C22_Witness ==
    /\ IsExtract
    /\ ~result.raised
    /\ data[Len(data)].volume = 4 * data[Len(data) - 1].volume
    /\ data[Len(data)].volume > 0
    /\ ValueOf("volume_change") = Real(RInt(2))
    /\ LET lines == MacdLines(closes(data), config.macd_params[1],
                              config.macd_params[2], config.macd_params[3])
       IN  /\ lines[2] > 0
           /\ lines[1] > 2 * lines[2]
    /\ ValueOf("macd_signal_ratio") = Real(ROne)

\* C23 (as claimed): for every series of at least min_window_length() candles
\* extract(series) equals the last vector of extract_batch(series) with the
\* default window, also when the series is longer than the window.
C23_ExtractIsLastOfBatch ==
    (IsBatch /\ call.window_size = 0 /\ Len(data) >= min_klines_required(config)) =>
        /\ ~result.raised
        /\ Len(result.vectors) >= 1
        /\ Back(result.vectors, 1).values = extract(data, config).values

IsPrepare == pc = "done" /\ call.op = "prepare_ml_data"

\* C24 (as claimed): for every target_type prepare_ml_data removes the rows
\* with no future data, the last target_horizon rows of the frame: no sample
\* (X row, y) it returns comes from one of them.
C24_NoSampleWithoutFuture ==
    (IsPrepare /\ ~result.raised) =>
        \A k \in 1..Len(result.rows) :
            result.rows[k] < Len(data) - call.target_horizon

\* The conditions under which the indicators answer their default instead of
\* computing: "if len(data) < period or period == 0" of _calculate_sma,
\* "if len(closes) < period + 1" of _calculate_rsi, the else of
\* "if len(macd_history) >= signal_period" of _calculate_macd,
\* "if len(closes) < period" of _calculate_bollinger and
\* "if len(closes) <= period" of _calculate_return and _calculate_log_return.
SmaDefault(cs, period) == Len(cs) < period \/ period = 0
RsiDefault(cs, period) == Len(cs) < period + 1
SignalDefault(cs, slow_period, signal_period) ==
    Max2(0, Len(cs) + 1 - slow_period) < signal_period
BollingerDefault(cs, period) == Len(cs) < period
ReturnDefault(cs, period) == Len(cs) <= period

PositivePeriods(cfg) ==
    /\ \A i \in 1..Len(cfg.sma_periods) : cfg.sma_periods[i] > 0
    /\ \A i \in 1..Len(cfg.ema_periods) : cfg.ema_periods[i] > 0
    /\ \A i \in 1..Len(cfg.return_periods) : cfg.return_periods[i] > 0
    /\ \A i \in 1..3 : cfg.macd_params[i] > 0
    /\ cfg.rsi_period > 0
    /\ cfg.bb_period > 0
    /\ cfg.atr_period > 0

C26_RowsArePrefixOfBatch ==
    (IsLabels /\ ~result.raised) =>
        LET batch == extract_batch(data, 0, config)
        IN  /\ ~batch.raised
            /\ Len(result.X) <= Len(batch.vectors)
            /\ \A k \in 1..Len(result.X) : result.X[k] = batch.vectors[k].values

\* labeled samples on a series that moves, fewer than the batch has vectors
C26_Witness ==
    /\ IsLabels
    /\ ~result.raised
    /\ Len(result.X) >= 2
    /\ result.X[1] # result.X[2]
    /\ Len(result.X) < Len(extract_batch(data, 0, config).vectors)
    /\ result.X[2] = extract_batch(data, 0, config).vectors[2].values

\* df with every candle after the 0-based index `last` changed in all its
\* fields
ChangedAfter(df, last) ==
    [i \in 1..Len(df) |->
        IF i - 1 <= last THEN df[i]
        ELSE [open |-> df[i].open + 3, high |-> df[i].high + 11,
              low |-> df[i].low + 2, close |-> df[i].close + 7,
              volume |-> df[i].volume + 100]]

\* C27: no look-ahead: for future_periods >= 1 the feature vector of each
\* labeled sample depends only on the candles up to the end of its window:
\* changing the candles after the window end, the candle at i + future_periods
\* among them, leaves the feature vector of that sample unchanged.
C27_NoLookAhead ==
    (IsLabels /\ ~result.raised /\ call.future_periods >= 1) =>
        \A k \in 1..Len(result.X) :
            LET changed == extract_with_labels(ChangedAfter(data, result.ends[k]),
                                               call.future_periods, call.threshold,
                                               config)
            IN  /\ ~changed.raised
                /\ changed.ends[k] = result.ends[k]
                /\ changed.X[k] = result.X[k]

\* a sample whose label changes with the candles after its window while its
\* features stay
C27_Witness ==
    /\ IsLabels
    /\ ~result.raised
    /\ call.future_periods >= 1
    /\ \E k \in 1..Len(result.X) :
          LET changed == extract_with_labels(ChangedAfter(data, result.ends[k]),
                                             call.future_periods, call.threshold,
                                             config)
          IN  /\ changed.returns[k] # result.returns[k]
              /\ changed.y[k] # result.y[k]
              /\ changed.X[k] = result.X[k]

\* train_single_symbol skips the symbol:
\* len(data) < extractor.config.min_klines_required() + future_periods
InsufficientData(df, cfg, future_periods) ==
    Len(df) < min_klines_required(cfg) + future_periods

\* C28 (as claimed): whenever train_single_symbol does not skip, i.e.
\* len(data) >= min_klines_required() + future_periods, extract_with_labels
\* returns at least one labeled sample, and X has feature_count() columns and
\* as many rows as y has labels.
C28_TrainingSetNotEmpty ==
    (IsLabels /\ ~InsufficientData(data, config, call.future_periods)) =>
        /\ ~result.raised
        /\ Len(result.X) >= 1
        /\ Len(result.X) = Len(result.y)
        /\ \A k \in 1..Len(result.X) : Len(result.X[k]) = feature_count(config)

\* C29 (as claimed): the forward return never divides by a zero close: on
\* every series, also one whose close is 0 at the base index of a label, each
\* label is derived from a finite forward return, never from NaN or Infinity.
C29_FiniteForwardReturn ==
    (IsLabels /\ ~result.raised) =>
        \A k \in 1..Len(result.returns) : result.returns[k].kind = "finite"

\* the last candle has high > low and low <= min(open, close) <=
\* max(open, close) <= high
WellFormedLast(df) ==
    LET c == Back(df, 1)
    IN  /\ c.high > c.low
        /\ c.low <= c.open /\ c.low <= c.close
        /\ c.open <= c.high /\ c.close <= c.high

====
